---- MODULE Spec2Model ----
(***************************************************************************)
(* A model of the Scheme-like interpreter of lab.py: the parser, the       *)
(* frames, the evaluator with its special forms, closures and the builtin  *)
(* procedures.                                                             *)
(*                                                                         *)
(* Python objects with identity (Frame, Pair, Function) live in three      *)
(* tables, frames, heap and funcs, and are referred to by their index.     *)
(* A runtime value is a record [tag, v, d]:                                *)
(*   int   v           float v/d (d > 0, lowest terms)   bool v in {0,1}   *)
(*   nil   (the class Nill)      pair v = index in heap                    *)
(*   func  v = index in funcs    builtin v = index in Procs                *)
(* A syntax tree node is a record [k, n, d, s, items]: a number (k "int"   *)
(* or "float", n/d), a symbol (k "sym", text s) or a Python list           *)
(* (k "list", items).                                                      *)
(* A Python exception is the name of its class in the field err; err = ""  *)
(* means that the call returned.                                           *)
(***************************************************************************)
EXTENDS Integers, Sequences, FiniteSets, TLC

VARIABLES
    frames,   \* every Frame object: [parent_frame, bindings]; frames[1] is the Builtin
    heap,     \* every Pair object: [car, cdr]
    funcs,    \* every Function object: [frame, paramaters, code]
    tree,     \* the tree handed to the last call of evaluate
    frame,    \* the frame handed to the last call of evaluate
    listy,    \* the argument list handed to the last direct call of a builtin
    tokens,   \* the token list handed to parse
    outcome,  \* what the last call returned or raised: [val, err]
    calls     \* the number of calls made so far

vars == <<frames, heap, funcs, tree, frame, listy, tokens, outcome, calls>>

----------------------------------------------------------------------------
(* Bounds of the model.                                                    *)

MaxFrames == 4      \* Frame objects alive in one environment
MaxHeap == 4        \* Pair objects alive in one environment
MaxFuncs == 2       \* Function objects alive in one environment
MaxDepth == 3       \* nested closure calls the host stack allows
MaxCalls == 3       \* calls made on one environment
MaxTokens == 4      \* length of a token list handed to parse
MaxCells == 2       \* Pair objects made by cons before append is called
MaxArgs == 3        \* length of the argument list handed to append

----------------------------------------------------------------------------
(* Values.                                                                 *)

Abs(n) == IF n < 0 THEN -n ELSE n

RECURSIVE GCD(_, _)
GCD(a, b) == IF b = 0 THEN a ELSE GCD(b, a % b)

IntV(n) == [tag |-> "int", v |-> n, d |-> 1]
FloatV(n, d) ==
    LET g == GCD(Abs(n), Abs(d))
        s == IF d < 0 THEN -1 ELSE 1
    IN [tag |-> "float", v |-> (s * n) \div g, d |-> (s * d) \div g]
BoolV(b) == [tag |-> "bool", v |-> IF b THEN 1 ELSE 0, d |-> 1]
True == BoolV(TRUE)
False == BoolV(FALSE)
Nill == [tag |-> "nil", v |-> 0, d |-> 1]
PairV(a) == [tag |-> "pair", v |-> a, d |-> 1]
FuncV(i) == [tag |-> "func", v |-> i, d |-> 1]
None == [tag |-> "none", v |-> 0, d |-> 1]

Procs == <<"+", "-", "*", "/", ">", "<", ">=", "<=", "equal?", "not",
           "cons", "car", "cdr", "list", "list?", "append", "length",
           "list-ref", "map", "filter", "reduce", "begin">>
ProcV(name) ==
    [tag |-> "builtin", v |-> CHOOSE i \in 1..Len(Procs) : Procs[i] = name, d |-> 1]

IsNumber(x) == x.tag \in {"int", "float", "bool"}

\* Python's == on the values of the interpreter: numbers and booleans compare
\* by numeric value, Nill is one class object, every other object by identity.
PyEq(a, b) ==
    IF IsNumber(a) /\ IsNumber(b) THEN a.v * b.d = b.v * a.d
    ELSE a.tag = b.tag /\ a.v = b.v

\* Python's truth value: False, 0 and 0.0 are false, every object is true.
Truthy(x) == IF IsNumber(x) THEN x.v # 0 ELSE TRUE

\* Python's callable(): Function has __call__, the builtins are functions,
\* and Nill is a class.
Callable(x) == x.tag \in {"func", "builtin", "nil"}

MkNum(tag, n, d) == IF tag = "float" THEN FloatV(n, d) ELSE IntV(n)
ResTag(a, b) == IF a.tag = "float" \/ b.tag = "float" THEN "float" ELSE "int"
NumAdd(a, b) == MkNum(ResTag(a, b), a.v * b.d + b.v * a.d, a.d * b.d)
NumSub(a, b) == MkNum(ResTag(a, b), a.v * b.d - b.v * a.d, a.d * b.d)
NumMul(a, b) == MkNum(ResTag(a, b), a.v * b.v, a.d * b.d)
NumDiv(a, b) == FloatV(a.v * b.d, a.d * b.v)
NumLe(a, b) == a.v * b.d <= b.v * a.d
NumLt(a, b) == a.v * b.d < b.v * a.d

----------------------------------------------------------------------------
(* Syntax trees.                                                           *)

IntLit(n) == [k |-> "int", n |-> n, d |-> 1, s |-> "", items |-> <<>>]
FloatLit(n, d) == [k |-> "float", n |-> n, d |-> d, s |-> "", items |-> <<>>]
Sym(s) == [k |-> "sym", n |-> 0, d |-> 1, s |-> s, items |-> <<>>]
List(items) == [k |-> "list", n |-> 0, d |-> 1, s |-> "", items |-> items]
NoTree == [k |-> "none", n |-> 0, d |-> 1, s |-> "", items |-> <<>>]

IsStr(t) == t.k = "sym"
IsList(t) == t.k = "list"
\* tree[0] == name
HeadIs(t, name) == t.items[1].k = "sym" /\ t.items[1].s = name

----------------------------------------------------------------------------
(* Results of a call: the tables as the call left them, and the value it   *)
(* returned or the exception it raised.                                    *)

Ok(st, x) == [st |-> st, val |-> x, err |-> ""]
Raise(st, e) == [st |-> st, val |-> None, err |-> e]

----------------------------------------------------------------------------
(* class Frame and class Builtin                                           *)

Bind(b, var, val) == [n \in (DOMAIN b) \cup {var} |-> IF n = var THEN val ELSE b[n]]
Pop(b, var) == [n \in (DOMAIN b) \ {var} |-> b[n]]

\* self.bindings = {}
NoBindings == [n \in {} |-> None]

\* Builtin.__init__: the bindings of the root frame. A Builtin has no
\* attribute parent_frame, written NoParent.
NoParent == 0
BuiltinBindings ==
    [n \in {Procs[i] : i \in 1..Len(Procs)} \cup {"#t", "#f", "nil"} |->
        IF n = "#t" THEN True
        ELSE IF n = "#f" THEN False
        ELSE IF n = "nil" THEN Nill
        ELSE ProcV(n)]
Builtin == [parent_frame |-> NoParent, bindings |-> BuiltinBindings]

\* Frame.__init__ with a parent frame
NewFrame(st, parent) ==
    [st EXCEPT !.frames = Append(@, [parent_frame |-> parent, bindings |-> NoBindings])]

\* Frame.__getitem__ and, for the root, Builtin.__getitem__
RECURSIVE Frame_getitem(_, _, _)
Frame_getitem(st, f, var) ==
    IF var \in DOMAIN st.frames[f].bindings THEN Ok(st, st.frames[f].bindings[var])
    ELSE IF st.frames[f].parent_frame = NoParent THEN Raise(st, "SchemeNameError")
    ELSE Frame_getitem(st, st.frames[f].parent_frame, var)

\* Frame.__setitem__ writing into the Builtin instead of this frame
Frame_setitem_root(st, f, var, val) ==
    [st EXCEPT !.frames[1].bindings = Bind(@, var, val)]

\* Frame.__setitem__
Frame_setitem(st, f, var, val) ==
    [st EXCEPT !.frames[f].bindings = Bind(@, var, val)]

\* Frame.set_exisits without the walk up the chain
set_exisits_here(st, f, var, val) ==
    Ok([st EXCEPT !.frames[f].bindings = Bind(@, var, val)], None)

\* Frame.set_exisits; the Builtin inherits it and has no parent_frame to go to
RECURSIVE set_exisits(_, _, _, _)
set_exisits(st, f, var, val) ==
    IF var \in DOMAIN st.frames[f].bindings
    THEN Ok([st EXCEPT !.frames[f].bindings = Bind(@, var, val)], None)
    ELSE IF st.frames[f].parent_frame = NoParent THEN Raise(st, "AttributeError")
    ELSE set_exisits(st, st.frames[f].parent_frame, var, val)

\* Frame.delete removing the nearest binding of the chain
RECURSIVE delete_nearest(_, _, _)
delete_nearest(st, f, var) ==
    IF var \in DOMAIN st.frames[f].bindings
    THEN Ok([st EXCEPT !.frames[f].bindings = Pop(@, var)], st.frames[f].bindings[var])
    ELSE IF st.frames[f].parent_frame = NoParent THEN Raise(st, "SchemeNameError")
    ELSE delete_nearest(st, st.frames[f].parent_frame, var)

\* Frame.delete
delete(st, f, var) ==
    IF var \notin DOMAIN st.frames[f].bindings THEN Raise(st, "SchemeNameError")
    ELSE Ok([st EXCEPT !.frames[f].bindings = Pop(@, var)], st.frames[f].bindings[var])

----------------------------------------------------------------------------
(* The builtins that call no procedure.  Each takes the tables and the     *)
(* Python list of its arguments.                                           *)

Alloc(st, a, b) == [st EXCEPT !.heap = Append(@, [car |-> a, cdr |-> b])]
IsPair(x) == x.tag = "pair"

RECURSIVE sum_from(_, _, _)
sum_from(st, args, acc) ==
    IF args = <<>> THEN Ok(st, acc)
    ELSE IF ~IsNumber(args[1]) THEN Raise(st, "TypeError")
    ELSE sum_from(st, Tail(args), NumAdd(acc, args[1]))

\* "+": sum
sum(st, args) == sum_from(st, args, IntV(0))

\* "-": lambda args: -args[0] if len(args) == 1 else (args[0] - sum(args[1:]))
minus(st, args) ==
    IF Len(args) = 0 THEN Raise(st, "IndexError")
    ELSE IF Len(args) = 1
    THEN IF IsNumber(args[1]) THEN Ok(st, NumSub(IntV(0), args[1]))
         ELSE Raise(st, "TypeError")
    ELSE LET rest == sum(st, Tail(args))
         IN IF rest.err # "" THEN rest
            ELSE IF ~IsNumber(args[1]) THEN Raise(st, "TypeError")
            ELSE Ok(st, NumSub(args[1], rest.val))

RECURSIVE product_from(_, _, _)
product_from(st, products, answer) ==
    IF products = <<>> THEN Ok(st, answer)
    ELSE IF ~(IsNumber(answer) /\ IsNumber(products[1])) THEN Raise(st, "TypeError")
    ELSE product_from(st, Tail(products), NumMul(answer, products[1]))

\* Builtin.product
product(st, products) ==
    IF Len(products) = 0 THEN Raise(st, "IndexError")
    ELSE product_from(st, Tail(products), products[1])

RECURSIVE division_from(_, _, _)
division_from(st, divisers, answer) ==
    IF divisers = <<>> THEN Ok(st, answer)
    ELSE IF ~(IsNumber(answer) /\ IsNumber(divisers[1])) THEN Raise(st, "TypeError")
    ELSE IF divisers[1].v = 0 THEN Raise(st, "ZeroDivisionError")
    ELSE division_from(st, Tail(divisers), NumDiv(answer, divisers[1]))

\* Builtin.division
division(st, divisers) ==
    IF Len(divisers) = 0 THEN Raise(st, "IndexError")
    ELSE division_from(st, Tail(divisers), divisers[1])

\* Builtin.equal
equal(st, equalizers) ==
    IF Len(equalizers) = 0 THEN Raise(st, "IndexError")
    ELSE Ok(st, BoolV(\A i \in 1..Len(equalizers) : PyEq(equalizers[1], equalizers[i])))

\* The loop of greater, lesser, greatereq and lessereq: stop, with False, at
\* the first adjacent pair in the relation stop; comparing anything but
\* numbers raises.
RECURSIVE compare_from(_, _, _, _)
compare_from(st, args, i, stop) ==
    IF i > Len(args) THEN Ok(st, True)
    ELSE IF ~(IsNumber(args[i - 1]) /\ IsNumber(args[i])) THEN Raise(st, "TypeError")
    ELSE IF (stop = "<=" /\ NumLe(args[i - 1], args[i]))
            \/ (stop = ">=" /\ NumLe(args[i], args[i - 1]))
            \/ (stop = "<" /\ NumLt(args[i - 1], args[i]))
            \/ (stop = ">" /\ NumLt(args[i], args[i - 1]))
    THEN Ok(st, False)
    ELSE compare_from(st, args, i + 1, stop)

\* Builtin.greater, lesser, greatereq, lessereq
greater(st, greaters) == compare_from(st, greaters, 2, "<=")
lesser(st, lessers) == compare_from(st, lessers, 2, ">=")
greatereq(st, greatereqs) == compare_from(st, greatereqs, 2, "<")
lessereq(st, lessereqs) == compare_from(st, lessereqs, 2, ">")

\* Builtin.not_it
not_it(st, notters) ==
    IF Len(notters) # 1 THEN Raise(st, "SchemeEvaluationError")
    ELSE Ok(st, BoolV(~Truthy(notters[1])))

\* Builtin.cons
cons(st, args) ==
    IF Len(args) # 2 THEN Raise(st, "SchemeEvaluationError")
    ELSE LET st2 == Alloc(st, args[1], args[2])
         IN Ok(st2, PairV(Len(st2.heap)))

\* Builtin.car
car(st, con) ==
    IF Len(con) # 1 \/ ~IsPair(con[1]) THEN Raise(st, "SchemeEvaluationError")
    ELSE Ok(st, st.heap[con[1].v].car)

\* Builtin.cdr
cdr(st, con) ==
    IF Len(con) # 1 \/ ~IsPair(con[1]) THEN Raise(st, "SchemeEvaluationError")
    ELSE Ok(st, st.heap[con[1].v].cdr)

\* Builtin.list: the Pair of the last element is created first
RECURSIVE list_from(_, _, _)
list_from(st, list_elements, list_object) ==
    IF list_elements = <<>> THEN Ok(st, list_object)
    ELSE LET n == Len(list_elements)
             st2 == Alloc(st, list_elements[n], list_object)
         IN list_from(st2, SubSeq(list_elements, 1, n - 1), PairV(Len(st2.heap)))

list(st, list_elements) == list_from(st, list_elements, Nill)

\* Builtin.islist
RECURSIVE islist(_, _)
islist(st, args) ==
    IF Len(args) = 0 THEN Raise(st, "IndexError")
    ELSE IF PyEq(args[1], Nill) THEN Ok(st, True)
    ELSE IF Len(args) # 1 \/ ~IsPair(args[1]) THEN Ok(st, False)
    ELSE LET rest == st.heap[args[1].v].cdr
         IN IF IsPair(rest) THEN islist(st, <<rest>>)
            ELSE IF PyEq(rest, Nill) THEN Ok(st, True)
            ELSE Ok(st, False)

\* the while loop of Builtin.list_length
RECURSIVE length_from(_, _, _)
length_from(st, x, count) ==
    IF ~PyEq(st.heap[x.v].cdr, Nill) THEN length_from(st, st.heap[x.v].cdr, count + 1)
    ELSE Ok(st, IntV(count))

\* Builtin.list_length
list_length(st, args) ==
    LET ok == islist(st, args)
    IN IF ok.err # "" THEN ok
       ELSE IF ~Truthy(ok.val) THEN Raise(st, "SchemeEvaluationError")
       ELSE IF PyEq(args[1], Nill) THEN Ok(st, IntV(0))
       ELSE length_from(st, args[1], 1)

\* the while loop of Builtin.list_indexing: index != 0 never becomes false for
\* a negative or fractional index, and self.cdr raises at the end of the list
RECURSIVE index_from(_, _, _)
index_from(st, linked_list, index) ==
    IF PyEq(index, IntV(0)) THEN car(st, <<linked_list>>)
    ELSE LET next == cdr(st, <<linked_list>>)
         IN IF next.err # "" THEN next
            ELSE index_from(st, next.val, NumSub(index, IntV(1)))

\* Builtin.list_indexing
list_indexing(st, args) ==
    IF Len(args) = 0 THEN Raise(st, "IndexError")
    ELSE IF Truthy(islist(st, <<args[1]>>).val)
    THEN IF Len(args) < 2 THEN Raise(st, "IndexError")
         ELSE IF ~IsNumber(args[2]) THEN Raise(st, "TypeError")
         ELSE IF NumLt(args[2], list_length(st, <<args[1]>>).val)
         THEN index_from(st, args[1], args[2])
         ELSE Raise(st, "SchemeEvaluationError")
    ELSE IF Len(args) < 2 THEN Raise(st, "IndexError")
    ELSE IF PyEq(args[2], IntV(0)) /\ IsPair(args[1]) THEN car(st, <<args[1]>>)
    ELSE Raise(st, "SchemeEvaluationError")

\* Builtin.copy returning the list it was given
copy_shared(st, args) ==
    IF PyEq(args[1], Nill) \/ IsPair(args[1]) THEN Ok(st, args[1])
    ELSE Raise(st, "AttributeError")

\* Builtin.copy: old_list.car of anything but a Pair raises AttributeError;
\* the copy of the rest is made before the new Pair
RECURSIVE copy(_, _)
copy(st, args) ==
    LET old_list == args[1]
    IN IF PyEq(old_list, Nill) THEN Ok(st, Nill)
       ELSE IF ~IsPair(old_list) THEN Raise(st, "AttributeError")
       ELSE LET rest == copy(st, <<st.heap[old_list.v].cdr>>)
            IN IF rest.err # "" THEN rest
               ELSE LET st2 == Alloc(rest.st, st.heap[old_list.v].car, rest.val)
                    IN Ok(st2, PairV(Len(st2.heap)))

\* Builtin.beign
beign(st, args) ==
    IF Len(args) = 0 THEN Raise(st, "IndexError")
    ELSE Ok(st, args[Len(args)])

\* while self.cdr([end_of_list]) != Nill: end_of_list = self.cdr([end_of_list])
RECURSIVE walk_to_end(_, _)
walk_to_end(st, end_of_list) ==
    LET next == cdr(st, <<end_of_list>>)
    IN IF next.err # "" THEN next
       ELSE IF ~PyEq(next.val, Nill) THEN walk_to_end(st, next.val)
       ELSE Ok(st, end_of_list)

\* the for loop of Builtin.append
RECURSIVE append_from(_, _, _, _)
append_from(st, rest, new_list, end_of_list) ==
    IF rest = <<>> THEN Ok(st, new_list)
    ELSE LET additional_list == rest[1]
         IN IF PyEq(new_list, Nill)
            THEN LET c == copy(st, <<additional_list>>)
                 IN IF c.err # "" THEN c
                    ELSE append_from(c.st, Tail(rest), c.val, end_of_list)
            ELSE IF PyEq(additional_list, Nill)
            THEN append_from(st, Tail(rest), new_list, end_of_list)
            ELSE IF ~Truthy(islist(st, <<additional_list>>).val)
            THEN Raise(st, "SchemeEvaluationError")
            ELSE LET e == walk_to_end(st, end_of_list)
                 IN IF e.err # "" THEN e
                    ELSE LET c == copy(st, <<additional_list>>)
                         IN IF c.err # "" THEN c
                            ELSE append_from(
                                    [c.st EXCEPT !.heap[e.val.v].cdr = c.val],
                                    Tail(rest), new_list, e.val)

\* Builtin.append
append(st, args) ==
    IF Len(args) = 0 THEN Ok(st, Nill)
    ELSE IF ~Truthy(islist(st, <<args[1]>>).val) THEN Raise(st, "SchemeEvaluationError")
    ELSE LET c == copy(st, <<args[1]>>)
         IN append_from(c.st, Tail(args), c.val, c.val)

----------------------------------------------------------------------------
(* evaluate, Function.__call__ and the builtins that call a procedure.     *)
(* depth is the number of nested closure calls the host stack still        *)
(* allows.  The forms of this model name variables and parameters by       *)
(* symbols and write parameter and binding lists as lists.                 *)

RECURSIVE evaluate(_, _, _, _)
RECURSIVE evaluate_each(_, _, _, _, _)
RECURSIVE and_from(_, _, _, _)
RECURSIVE or_from(_, _, _, _)
RECURSIVE let_from(_, _, _, _)
RECURSIVE Function_call(_, _, _, _)
RECURSIVE PyCall(_, _, _, _)
RECURSIVE map_func(_, _, _)
RECURSIVE filter(_, _, _)
RECURSIVE reduce(_, _, _)

\* for val, var in zip(arg, self.paramaters): func_frame[var] = val
RECURSIVE bind_from(_, _, _, _)
bind_from(st, f, paramaters, arg) ==
    IF paramaters = <<>> THEN st
    ELSE bind_from(Frame_setitem(st, f, paramaters[1].s, arg[1]), f,
                   Tail(paramaters), Tail(arg))

\* Function.__call__ binding the parameters in the captured frame itself
Function_call_shared(st, fn, arg, depth) ==
    IF depth = 0 THEN Raise(st, "RecursionError")
    ELSE LET self == st.funcs[fn]
         IN IF Len(self.paramaters.items) # Len(arg)
            THEN Raise(st, "SchemeEvaluationError")
            ELSE evaluate(self.code, self.frame,
                          bind_from(st, self.frame, self.paramaters.items, arg),
                          depth - 1)

\* Function.__call__: the frame is made before the number of arguments is
\* compared
Function_call(st, fn, arg, depth) ==
    IF depth = 0 THEN Raise(st, "RecursionError")
    ELSE LET self == st.funcs[fn]
             st2 == NewFrame(st, self.frame)
             func_frame == Len(st2.frames)
         IN IF ~IsList(self.paramaters) THEN Raise(st2, "TypeError")
            ELSE IF Len(self.paramaters.items) # Len(arg)
            THEN Raise(st2, "SchemeEvaluationError")
            ELSE evaluate(self.code, func_frame,
                          bind_from(st2, func_frame, self.paramaters.items, arg),
                          depth - 1)

\* The procedure bound to a name by Builtin.__init__, applied to args
call_builtin(st, name, args, depth) ==
    CASE name = "+" -> sum(st, args)
      [] name = "-" -> minus(st, args)
      [] name = "*" -> product(st, args)
      [] name = "/" -> division(st, args)
      [] name = ">" -> greater(st, args)
      [] name = "<" -> lesser(st, args)
      [] name = ">=" -> greatereq(st, args)
      [] name = "<=" -> lessereq(st, args)
      [] name = "equal?" -> equal(st, args)
      [] name = "not" -> not_it(st, args)
      [] name = "cons" -> cons(st, args)
      [] name = "car" -> car(st, args)
      [] name = "cdr" -> cdr(st, args)
      [] name = "list" -> list(st, args)
      [] name = "list?" -> islist(st, args)
      [] name = "append" -> append(st, args)
      [] name = "length" -> list_length(st, args)
      [] name = "list-ref" -> list_indexing(st, args)
      [] name = "map" -> map_func(st, args, depth)
      [] name = "filter" -> filter(st, args, depth)
      [] name = "reduce" -> reduce(st, args, depth)
      [] name = "begin" -> beign(st, args)

\* A Python call x(args): of a Function, of a builtin, of the class Nill
\* (which takes no arguments) or of an object that is not callable
PyCall(st, x, args, depth) ==
    IF x.tag = "func" THEN Function_call(st, x.v, args, depth)
    ELSE IF x.tag = "builtin" THEN call_builtin(st, Procs[x.v], args, depth)
    ELSE Raise(st, "TypeError")

\* Builtin.map_func
map_func(st, args, depth) ==
    IF Len(args) < 2 THEN Raise(st, "IndexError")
    ELSE LET func == args[1]
             old_list == args[2]
         IN IF PyEq(old_list, Nill) THEN Ok(st, Nill)
            ELSE LET first == car(st, <<old_list>>)
                 IN IF first.err # "" THEN first
                    ELSE LET y == PyCall(st, func, <<first.val>>, depth)
                         IN IF y.err # "" THEN y
                            ELSE LET rest == map_func(y.st,
                                                <<func, y.st.heap[old_list.v].cdr>>, depth)
                                 IN IF rest.err # "" THEN rest
                                    ELSE LET st2 == Alloc(rest.st, y.val, rest.val)
                                         IN Ok(st2, PairV(Len(st2.heap)))

\* Builtin.filter
filter(st, args, depth) ==
    IF Len(args) < 2 THEN Raise(st, "IndexError")
    ELSE LET func == args[1]
             old_list == args[2]
         IN IF PyEq(old_list, Nill) THEN Ok(st, Nill)
            ELSE LET first == car(st, <<old_list>>)
                 IN IF first.err # "" THEN first
                    ELSE LET y == PyCall(st, func, <<first.val>>, depth)
                         IN IF y.err # "" THEN y
                            ELSE LET rest == filter(y.st,
                                                <<func, y.st.heap[old_list.v].cdr>>, depth)
                                 IN IF rest.err # "" THEN rest
                                    ELSE IF ~Truthy(y.val) THEN rest
                                    ELSE LET st2 == Alloc(rest.st,
                                                          rest.st.heap[old_list.v].car,
                                                          rest.val)
                                         IN Ok(st2, PairV(Len(st2.heap)))

\* Builtin.reduce
reduce(st, args, depth) ==
    IF Len(args) < 3 THEN Raise(st, "IndexError")
    ELSE LET func == args[1]
             lst == args[2]
             val == args[3]
         IN IF PyEq(lst, Nill) THEN Ok(st, val)
            ELSE IF ~IsPair(lst) THEN Raise(st, "AttributeError")
            ELSE LET y == PyCall(st, func, <<val, st.heap[lst.v].car>>, depth)
                 IN IF y.err # "" THEN y
                    ELSE reduce(y.st, <<func, st.heap[lst.v].cdr, y.val>>, depth)

\* for element in tree: eval_tree.append(evaluate(element, frame))
evaluate_each(trees, f, st, depth, eval_tree) ==
    IF trees = <<>> THEN Ok(st, eval_tree)
    ELSE LET r == evaluate(trees[1], f, st, depth)
         IN IF r.err # "" THEN r
            ELSE evaluate_each(Tail(trees), f, r.st, depth, Append(eval_tree, r.val))

\* the loop of "and"
and_from(trees, f, st, depth) ==
    IF trees = <<>> THEN Ok(st, True)
    ELSE LET r == evaluate(trees[1], f, st, depth)
         IN IF r.err # "" THEN r
            ELSE IF ~Truthy(r.val) THEN Ok(r.st, False)
            ELSE and_from(Tail(trees), f, r.st, depth)

\* the loop of "or"
or_from(trees, f, st, depth) ==
    IF trees = <<>> THEN Ok(st, False)
    ELSE LET r == evaluate(trees[1], f, st, depth)
         IN IF r.err # "" THEN r
            ELSE IF Truthy(r.val) THEN Ok(r.st, True)
            ELSE or_from(Tail(trees), f, r.st, depth)

\* the loop of "let": baby_frame.bindings[sub_tree[0]] = evaluate(sub_tree[1], baby_frame)
let_from(sub_trees, baby_frame, st, depth) ==
    IF sub_trees = <<>> THEN Ok(st, None)
    ELSE LET sub_tree == sub_trees[1]
         IN IF ~IsList(sub_tree)
            THEN Raise(st, IF IsStr(sub_tree) THEN "IndexError" ELSE "TypeError")
            ELSE IF Len(sub_tree.items) < 2 THEN Raise(st, "IndexError")
            ELSE LET r == evaluate(sub_tree.items[2], baby_frame, st, depth)
                 IN IF r.err # "" THEN r
                    ELSE IF IsList(sub_tree.items[1]) THEN Raise(r.st, "TypeError")
                    ELSE let_from(Tail(sub_trees), baby_frame,
                                  Frame_setitem(r.st, baby_frame, sub_tree.items[1].s, r.val),
                                  depth)

evaluate_define(t, f, st, depth) ==
    IF Len(t.items) < 2 THEN Raise(st, "IndexError")
    ELSE IF IsList(t.items[2])
    THEN IF Len(t.items) < 3 \/ Len(t.items[2].items) = 0 THEN Raise(st, "IndexError")
         ELSE LET new_list == List(<<Sym("lambda"), List(Tail(t.items[2].items)), t.items[3]>>)
                  new_tree == List(<<t.items[1], t.items[2].items[1], new_list>>)
              IN evaluate(new_tree, f, st, depth)
    ELSE IF Len(t.items) < 3 THEN Raise(st, "IndexError")
    ELSE LET r == evaluate(t.items[3], f, st, depth)
         IN IF r.err # "" THEN r
            ELSE Ok(Frame_setitem(r.st, f, t.items[2].s, r.val), r.val)

evaluate_lambda(t, f, st, depth) ==
    IF Len(t.items) < 3 THEN Raise(st, "IndexError")
    ELSE LET st2 == [st EXCEPT !.funcs = Append(@, [frame |-> f,
                                                    paramaters |-> t.items[2],
                                                    code |-> t.items[3]])]
         IN Ok(st2, FuncV(Len(st2.funcs)))

\* "if" with Python's truth value in place of == True
evaluate_if_truthy(t, f, st, depth) ==
    IF Len(t.items) < 2 THEN Raise(st, "IndexError")
    ELSE LET c == evaluate(t.items[2], f, st, depth)
         IN IF c.err # "" THEN c
            ELSE IF Truthy(c.val)
            THEN IF Len(t.items) < 3 THEN Raise(c.st, "IndexError")
                 ELSE evaluate(t.items[3], f, c.st, depth)
            ELSE IF Len(t.items) < 4 THEN Raise(c.st, "IndexError")
                 ELSE evaluate(t.items[4], f, c.st, depth)

evaluate_if(t, f, st, depth) ==
    IF Len(t.items) < 2 THEN Raise(st, "IndexError")
    ELSE LET c == evaluate(t.items[2], f, st, depth)
         IN IF c.err # "" THEN c
            ELSE IF PyEq(c.val, True)
            THEN IF Len(t.items) < 3 THEN Raise(c.st, "IndexError")
                 ELSE evaluate(t.items[3], f, c.st, depth)
            ELSE IF Len(t.items) < 4 THEN Raise(c.st, "IndexError")
                 ELSE evaluate(t.items[4], f, c.st, depth)

evaluate_del(t, f, st, depth) ==
    IF Len(t.items) < 2 THEN Raise(st, "IndexError")
    ELSE LET r == evaluate(t.items[2], f, st, depth)
         IN IF r.err # "" THEN r
            ELSE IF IsList(t.items[2]) THEN Raise(r.st, "TypeError")
            ELSE IF ~IsStr(t.items[2]) THEN Raise(r.st, "SchemeNameError")
            ELSE delete(r.st, f, t.items[2].s)

evaluate_let(t, f, st, depth) ==
    LET st2 == NewFrame(st, f)
        baby_frame == Len(st2.frames)
    IN IF Len(t.items) < 2 THEN Raise(st2, "IndexError")
       ELSE IF ~IsList(t.items[2])
       THEN Raise(st2, IF IsStr(t.items[2]) THEN "IndexError" ELSE "TypeError")
       ELSE LET b == let_from(t.items[2].items, baby_frame, st2, depth)
            IN IF b.err # "" THEN b
               ELSE IF Len(t.items) < 3 THEN Raise(b.st, "IndexError")
               ELSE evaluate(t.items[3], baby_frame, b.st, depth)

\* "set!" evaluating the expression before it looks the name up
evaluate_set_eager(t, f, st, depth) ==
    LET temp == evaluate(t.items[3], f, st, depth)
    IN IF temp.err # "" THEN temp
       ELSE LET bound == Frame_getitem(temp.st, f, t.items[2].s)
            IN IF bound.err # "" THEN bound
               ELSE LET done == set_exisits(temp.st, f, t.items[2].s, temp.val)
                    IN IF done.err # "" THEN done
                       ELSE Ok(done.st, temp.val)

evaluate_set(t, f, st, depth) ==
    IF Len(t.items) < 2 THEN Raise(st, "IndexError")
    ELSE IF IsList(t.items[2]) THEN Raise(st, "TypeError")
    ELSE IF ~IsStr(t.items[2]) THEN Raise(st, "SchemeNameError")
    ELSE LET bound == Frame_getitem(st, f, t.items[2].s)
         IN IF bound.err # "" THEN bound
            ELSE IF Len(t.items) < 3 THEN Raise(st, "IndexError")
            ELSE LET temp == evaluate(t.items[3], f, st, depth)
                 IN IF temp.err # "" THEN temp
                    ELSE LET done == set_exisits(temp.st, f, t.items[2].s, temp.val)
                         IN IF done.err # "" THEN done
                            ELSE Ok(done.st, temp.val)

evaluate_call(t, f, st, depth) ==
    LET r == evaluate_each(t.items, f, st, depth, <<>>)
    IN IF r.err # "" THEN r
       ELSE LET eval_tree == r.val
            IN IF ~Callable(eval_tree[1]) THEN Raise(r.st, "SchemeEvaluationError")
               ELSE PyCall(r.st, eval_tree[1], Tail(eval_tree), depth)

evaluate(t, f, st, depth) ==
    IF t.k = "int" THEN Ok(st, IntV(t.n))
    ELSE IF t.k = "float" THEN Ok(st, FloatV(t.n, t.d))
    ELSE IF IsStr(t) THEN Frame_getitem(st, f, t.s)
    ELSE IF Len(t.items) = 0 THEN Raise(st, "SchemeEvaluationError")
    ELSE IF HeadIs(t, "define") THEN evaluate_define(t, f, st, depth)
    ELSE IF HeadIs(t, "lambda") THEN evaluate_lambda(t, f, st, depth)
    ELSE IF HeadIs(t, "if") THEN evaluate_if(t, f, st, depth)
    ELSE IF HeadIs(t, "and") THEN and_from(Tail(t.items), f, st, depth)
    ELSE IF HeadIs(t, "or") THEN or_from(Tail(t.items), f, st, depth)
    ELSE IF HeadIs(t, "del") THEN evaluate_del(t, f, st, depth)
    ELSE IF HeadIs(t, "let") THEN evaluate_let(t, f, st, depth)
    ELSE IF HeadIs(t, "set!") THEN evaluate_set(t, f, st, depth)
    ELSE evaluate_call(t, f, st, depth)

----------------------------------------------------------------------------
(* number_or_symbol and parse.  A token is a string; the spellings of the  *)
(* numbers the model uses are tabulated.                                   *)

IntSpellings == [t \in {"0", "1"} |-> IF t = "0" THEN 0 ELSE 1]
FloatSpellings == [t \in {"1.0"} |-> <<1, 1>>]

number_or_symbol(value) ==
    IF value \in DOMAIN IntSpellings THEN IntLit(IntSpellings[value])
    ELSE IF value \in DOMAIN FloatSpellings
    THEN FloatLit(FloatSpellings[value][1], FloatSpellings[value][2])
    ELSE Sym(value)

Parsed(val, index) == [val |-> val, index |-> index, err |-> ""]
ParseError(e) == [val |-> NoTree, index |-> 0, err |-> e]

RECURSIVE parse_expression(_, _)
RECURSIVE parse_subexpression(_, _, _)

\* the while loop of parse_expression; index counts from 0 as in the source
parse_subexpression(toks, index, subexpression) ==
    IF index >= Len(toks) THEN ParseError("IndexError")
    ELSE IF toks[index + 1] = ")" THEN Parsed(List(subexpression), index + 1)
    ELSE IF Len(toks) - 1 = index THEN ParseError("SchemeSyntaxError")
    ELSE LET next == parse_expression(toks, index)
         IN IF next.err # "" THEN next
            ELSE parse_subexpression(toks, next.index, Append(subexpression, next.val))

parse_expression(toks, index) ==
    IF index >= Len(toks) THEN ParseError("IndexError")
    ELSE IF toks[index + 1] = ")" THEN ParseError("SchemeSyntaxError")
    ELSE IF toks[index + 1] = "("
    THEN LET sub == parse_subexpression(toks, index + 1, <<>>)
         IN IF sub.err = "IndexError" THEN ParseError("SchemeSyntaxError") ELSE sub
    ELSE Parsed(number_or_symbol(toks[index + 1]), index + 1)

parse(toks) ==
    LET answer == parse_expression(toks, 0)
    IN IF answer.err # "" THEN answer
       ELSE IF Len(toks) # answer.index THEN ParseError("SchemeSyntaxError")
       ELSE answer

----------------------------------------------------------------------------
(* The environment: one Builtin, and the frame Frame() makes under it.     *)

Env == [frames |-> frames, heap |-> heap, funcs |-> funcs]
NewEnv == [frames |-> <<Builtin, [parent_frame |-> 1, bindings |-> NoBindings]>>,
           heap |-> <<>>, funcs |-> <<>>]
Fits(st) ==
    /\ Len(st.frames) <= MaxFrames
    /\ Len(st.heap) <= MaxHeap
    /\ Len(st.funcs) <= MaxFuncs

Pending == [val |-> None, err |-> "pending"]

\* the frames a tree can be evaluated in: every Frame under the Builtin
UserFrames == 2..Len(frames)

\* evaluate(tree, frame)
Evaluate(t, f) ==
    LET r == evaluate(t, f, Env, MaxDepth)
    IN /\ calls < MaxCalls
       /\ Fits(r.st)
       /\ frames' = r.st.frames
       /\ heap' = r.st.heap
       /\ funcs' = r.st.funcs
       /\ tree' = t
       /\ frame' = f
       /\ outcome' = [val |-> r.val, err |-> r.err]
       /\ calls' = calls + 1
       /\ UNCHANGED <<listy, tokens>>

----------------------------------------------------------------------------
(* The forms evaluated by the specification Spec.                          *)

Names == {"x", "nil"}

Form1(head, a) == List(<<Sym(head), a>>)
Form2(head, a, b) == List(<<Sym(head), a, b>>)
Form3(head, a, b, c) == List(<<Sym(head), a, b, c>>)

\* bodies of (define (f p) body): a free name, a definition in the frame of
\* the call, and a call of f from within f
Bodies ==
    {Sym("x"),
     Form2("define", Sym("x"), Sym("p")),
     Form3("if", Sym("p"), Sym("x"), List(<<Sym("f"), IntLit(1)>>))}

\* expressions of (set! name expr): a number, and forms that change the
\* bindings of name before the assignment
SetExprs(n) ==
    {IntLit(1), Form1("del", Sym(n)), Form2("define", Sym(n), IntLit(2))}

Init ==
    /\ frames = NewEnv.frames
    /\ heap = NewEnv.heap
    /\ funcs = NewEnv.funcs
    /\ tree = NoTree
    /\ frame = 0
    /\ listy = <<>>
    /\ tokens = <<>>
    /\ outcome = Pending
    /\ calls = 0

\* (define name 0)
Define(f, n) == Evaluate(Form2("define", Sym(n), IntLit(0)), f)

\* (define (f p) body)
DefineFunction(f, body) ==
    Evaluate(Form2("define", List(<<Sym("f"), Sym("p")>>), body), f)

\* (let ((name 3)) name)
Let(f, n) ==
    Evaluate(Form2("let", List(<<List(<<Sym(n), IntLit(3)>>)>>), Sym(n)), f)

\* (set! name expr)
Set(f, n, e) == Evaluate(Form2("set!", Sym(n), e), f)

\* (del name)
Del(f, n) == Evaluate(Form1("del", Sym(n)), f)

\* (f arg)
Call(f, a) == Evaluate(List(<<Sym("f"), a>>), f)

Next ==
    \/ \E f \in UserFrames, n \in Names : Define(f, n)
    \/ \E f \in UserFrames, body \in Bodies : DefineFunction(f, body)
    \/ \E f \in UserFrames, n \in {"x", "y"} : Let(f, n)
    \/ \E f \in UserFrames, n \in Names : \E e \in SetExprs(n) : Set(f, n, e)
    \/ \E f \in UserFrames, n \in Names : Del(f, n)
    \/ \E f \in UserFrames, a \in {IntLit(0), IntLit(1)} : Call(f, a)

Spec == Init /\ [][Next]_vars

----------------------------------------------------------------------------
(* SpecIf: a value is bound to x, then an if form tests x.                 *)

\* expressions whose values are the conditions: numbers, booleans, Nil,
\* builtins, pairs and a closure
CondExprs ==
    {IntLit(n) : n \in -3..4}
    \cup {FloatLit(n, 2) : n \in -3..5}
    \cup {Sym("#t"), Sym("#f"), Sym("nil"), Sym("car"), Sym("cdr"), Sym("+"),
          List(<<Sym("cons"), IntLit(1), IntLit(2)>>),
          List(<<Sym("list"), IntLit(1)>>),
          List(<<Sym("/"), IntLit(2), IntLit(2)>>),
          List(<<Sym("equal?"), IntLit(1), IntLit(1)>>),
          List(<<Sym("not"), IntLit(1)>>),
          Form2("lambda", List(<<Sym("p")>>), Sym("p"))}

\* (if x (define t 1) (define e 2)), (if x 10 20), (if x (if x 11 12) 13)
IfEffects == Form3("if", Sym("x"), Form2("define", Sym("t"), IntLit(1)),
                   Form2("define", Sym("e"), IntLit(2)))
IfValues == Form3("if", Sym("x"), IntLit(10), IntLit(20))
IfNested == Form3("if", Sym("x"), Form3("if", Sym("x"), IntLit(11), IntLit(12)),
                  IntLit(13))
IfForms == {IfEffects, IfValues, IfNested}

\* (define x cond)
DefineCond(e) == calls = 0 /\ Evaluate(Form2("define", Sym("x"), e), 2)

\* (if x then else)
If(t) == calls = 1 /\ outcome.err = "" /\ Evaluate(t, 2)

NextIf ==
    \/ \E e \in CondExprs : DefineCond(e)
    \/ \E t \in IfForms : If(t)

SpecIf == Init /\ [][NextIf]_vars

----------------------------------------------------------------------------
(* SpecBuiltin: cons makes pairs, then append is called on a list of       *)
(* values, listy.                                                          *)

BoundedSeq(S, n) == UNION {[1..k -> S] : k \in 0..n}

Pairs == {PairV(a) : a \in 1..Len(heap)}

\* cons([a, b]); the new Pair stays in heap
Cons(a, b) ==
    LET r == cons(Env, <<a, b>>)
    IN /\ outcome = Pending
       /\ Len(heap) < MaxCells
       /\ heap' = r.st.heap
       /\ UNCHANGED <<frames, funcs, tree, frame, listy, tokens, outcome, calls>>

\* append(listy)
AppendCall(args) ==
    LET r == append(Env, args)
    IN /\ outcome = Pending
       /\ heap' = r.st.heap
       /\ listy' = args
       /\ outcome' = [val |-> r.val, err |-> r.err]
       /\ calls' = calls + 1
       /\ UNCHANGED <<frames, funcs, tree, frame, tokens>>

NextBuiltin ==
    \/ \E a \in {IntV(1), IntV(2)}, b \in {Nill, IntV(1)} \cup Pairs : Cons(a, b)
    \/ \E args \in BoundedSeq({Nill, IntV(1)} \cup Pairs, MaxArgs) : AppendCall(args)

SpecBuiltin == Init /\ [][NextBuiltin]_vars

----------------------------------------------------------------------------
(* SpecParse: parse is called on a token list.                             *)

Alphabet == {"(", ")", "x", "1"}

InitParse ==
    /\ frames = NewEnv.frames
    /\ heap = NewEnv.heap
    /\ funcs = NewEnv.funcs
    /\ tree = NoTree
    /\ frame = 0
    /\ listy = <<>>
    /\ tokens \in BoundedSeq(Alphabet, MaxTokens)
    /\ outcome = Pending
    /\ calls = 0

\* parse(tokens)
Parse ==
    LET answer == parse(tokens)
    IN /\ outcome = Pending
       /\ outcome' = [val |-> answer.val, err |-> answer.err]
       /\ calls' = calls + 1
       /\ UNCHANGED <<frames, heap, funcs, tree, frame, listy, tokens>>

NextParse == Parse

SpecParse == InitParse /\ [][NextParse]_vars

----------------------------------------------------------------------------
(* Notions the properties are stated with.                                 *)

\* the frames of the chain of f, f first
RECURSIVE Chain(_, _)
Chain(fr, f) == IF f = NoParent THEN <<>> ELSE <<f>> \o Chain(fr, fr[f].parent_frame)

\* the nearest frame of the chain of f that binds n, 0 when none does
Nearest(fr, f, n) ==
    LET chain == Chain(fr, f)
        binders == {k \in 1..Len(chain) : n \in DOMAIN fr[chain[k]].bindings}
    IN IF binders = {} THEN 0
       ELSE chain[CHOOSE k \in binders : \A j \in binders : k <= j]

\* what a lookup of n from f yields
Looked(fr, f, n) ==
    IF Nearest(fr, f, n) = 0 THEN [val |-> None, err |-> "SchemeNameError"]
    ELSE [val |-> fr[Nearest(fr, f, n)].bindings[n], err |-> ""]

Called == calls' = calls + 1

SetForms == {Form2("set!", Sym(n), e) : n \in Names, e \in UNION {SetExprs(m) : m \in Names}}
DelForms == {Form1("del", Sym(n)) : n \in Names}
CallForms == {List(<<Sym("f"), a>>) : a \in {IntLit(0), IntLit(1)}}

\* v is Nil or a chain of Pairs that ends in Nil
RECURSIVE ProperList(_, _)
ProperList(h, x) == x = Nill \/ (IsPair(x) /\ ProperList(h, h[x.v].cdr))

\* the elements of a proper list
RECURSIVE Elements(_, _)
Elements(h, x) == IF ~IsPair(x) THEN <<>> ELSE <<h[x.v].car>> \o Elements(h, h[x.v].cdr)

RECURSIVE ElementsOfAll(_, _)
ElementsOfAll(h, args) ==
    IF args = <<>> THEN <<>> ELSE Elements(h, args[1]) \o ElementsOfAll(h, Tail(args))

\* the Pair cells that can be reached from x
RECURSIVE CellsOf(_, _)
CellsOf(h, x) ==
    IF ~IsPair(x) THEN {}
    ELSE {x.v} \cup CellsOf(h, h[x.v].car) \cup CellsOf(h, h[x.v].cdr)

\* the Pair cells of the spine of x
RECURSIVE SpineOf(_, _)
SpineOf(h, x) == IF ~IsPair(x) THEN {} ELSE {x.v} \cup SpineOf(h, h[x.v].cdr)

ArgCells(h, args) == UNION {CellsOf(h, args[i]) : i \in 1..Len(args)}

\* the tokens a tree is written with
Spelling(t) ==
    IF IsStr(t) THEN t.s ELSE CHOOSE tok \in DOMAIN IntSpellings : IntSpellings[tok] = t.n
RECURSIVE Unparse(_)
RECURSIVE UnparseAll(_)
Unparse(t) ==
    IF IsList(t) THEN <<"(">> \o UnparseAll(t.items) \o <<")">> ELSE <<Spelling(t)>>
UnparseAll(ts) == IF ts = <<>> THEN <<>> ELSE Unparse(ts[1]) \o UnparseAll(Tail(ts))

\* the number of "(" less the number of ")" among the first k tokens
RECURSIVE Depth(_, _)
Depth(toks, k) ==
    IF k = 0 THEN 0
    ELSE Depth(toks, k - 1)
         + (IF toks[k] = "(" THEN 1 ELSE IF toks[k] = ")" THEN -1 ELSE 0)

\* toks is one balanced expression: one atom, or a list that closes at the
\* last token and not before
SingleExpression(toks) ==
    \/ Len(toks) = 1 /\ toks[1] \notin {"(", ")"}
    \/ /\ Len(toks) > 1
       /\ toks[1] = "("
       /\ Depth(toks, Len(toks)) = 0
       /\ \A k \in 1..(Len(toks) - 1) : Depth(toks, k) >= 1

----------------------------------------------------------------------------
(* C1, checked under SpecIf.                                               *)

IfDone == calls = 2 /\ tree \in IfForms
CondValue == frames[2].bindings["x"]
Bound2(n) == n \in DOMAIN frames[2].bindings

ThenTaken ==
    /\ outcome.err = ""
    /\ tree = IfEffects => outcome.val = IntV(1) /\ Bound2("t") /\ ~Bound2("e")
    /\ tree = IfValues => outcome.val = IntV(10)
    /\ tree = IfNested => outcome.val = IntV(11)
ElseTaken ==
    /\ outcome.err = ""
    /\ tree = IfEffects => outcome.val = IntV(2) /\ Bound2("e") /\ ~Bound2("t")
    /\ tree = IfValues => outcome.val = IntV(20)
    /\ tree = IfNested => outcome.val = IntV(13)

\* C1 as stated: (if cond then else) takes the then branch only when the
\* value of cond is exactly the boolean true; for every other value, every
\* number included, it evaluates and returns the else branch and does not
\* evaluate the then branch.
C1_IfExactlyTrue ==
    IfDone => IF CondValue = True THEN ThenTaken ELSE ElseTaken

\* C1 amended: (if cond then else) takes the then branch exactly when the
\* value of cond equals the boolean true under the host's ==, that is when
\* it is the boolean true or a number equal to 1 (1, 1.0); for every other
\* value (false, 0, every number other than 1, pairs, Nil, closures and
\* builtins) it evaluates and returns the else branch and does not evaluate
\* the then branch.
C1_IfEqualsTrue ==
    IfDone => IF IsNumber(CondValue) /\ CondValue.v = CondValue.d
              THEN ThenTaken ELSE ElseTaken

C1_Witness ==
    IfDone /\ tree = IfEffects /\ CondValue = FloatV(1, 1) /\ ThenTaken

----------------------------------------------------------------------------
(* C2 and C8, checked under SpecBuiltin.                                   *)

AppendDone == outcome # Pending

\* C2 as stated: when every argument is Nil or a proper list, append
\* succeeds and returns a proper list whose elements are the elements of all
\* the arguments in argument order (Nil for no argument).
C2_AppendConcatenates ==
    (AppendDone /\ \A i \in 1..Len(listy) : ProperList(heap, listy[i]))
        => /\ outcome.err = ""
           /\ ProperList(heap, outcome.val)
           /\ Elements(heap, outcome.val) = ElementsOfAll(heap, listy)

\* C8: a call of append, whether it returns or raises, changes the car and
\* the cdr of no Pair cell of an argument, and when it returns no cell of the
\* spine of the result is a cell of an argument.
C8_AppendKeepsInputs ==
    [][(outcome = Pending /\ outcome' # Pending)
        => /\ \A a \in ArgCells(heap, listy') : heap'[a] = heap[a]
           /\ outcome'.err = ""
                => SpineOf(heap', outcome'.val) \cap ArgCells(heap, listy') = {}]_vars

C8_Witness ==
    /\ AppendDone
    /\ outcome.err = ""
    /\ Len(listy) >= 2
    /\ \A i \in 1..Len(listy) : IsPair(listy[i])
    /\ Len(Elements(heap, outcome.val)) >= 3

----------------------------------------------------------------------------
(* C3, C4, C5, C6, C7 and C9, checked under Spec.                          *)

\* C3: when (set! name expr) is evaluated in frame F and name is bound in the
\* chain of F, the value of expr overwrites the binding of the nearest frame
\* of the chain that binds name when the assignment is made; no frame gets a
\* binding it did not have, no other binding changes, the form returns the
\* value, and a lookup of name from F or from that frame finds the new value.
C3_SetOverwritesNearest ==
    [][(Called /\ tree' \in SetForms)
        => LET n == tree'.items[2].s
               F == frame'
               mid == evaluate(tree'.items[3], F, Env, MaxDepth)
               B == Nearest(mid.st.frames, F, n)
           IN (Nearest(frames, F, n) # 0 /\ mid.err = "" /\ B # 0)
                => /\ outcome' = [val |-> mid.val, err |-> ""]
                   /\ Len(frames') = Len(mid.st.frames)
                   /\ \A i \in DOMAIN frames' :
                        /\ DOMAIN frames'[i].bindings = DOMAIN mid.st.frames[i].bindings
                        /\ \A m \in DOMAIN frames'[i].bindings :
                             frames'[i].bindings[m] =
                                IF i = B /\ m = n THEN mid.val
                                ELSE mid.st.frames[i].bindings[m]
                   /\ Looked(frames', F, n) = [val |-> mid.val, err |-> ""]
                   /\ Looked(frames', B, n) = [val |-> mid.val, err |-> ""]]_vars

C3_Witness ==
    /\ tree = Form2("set!", Sym("x"), IntLit(1))
    /\ outcome = [val |-> IntV(1), err |-> ""]
    /\ frame = 3
    /\ "x" \notin DOMAIN frames[3].bindings
    /\ frames[frames[3].parent_frame].bindings = [n \in {"x"} |-> IntV(1)]

\* C4 as stated: evaluate returns a value or fails with SchemeNameError or
\* SchemeEvaluationError (or exhausts the host stack); no special form and no
\* builtin fails with any other kind of fault.
C4_OnlySchemeErrors ==
    outcome.err \in {"pending", "", "SchemeNameError", "SchemeEvaluationError",
                     "RecursionError"}

\* C5: a call of a closure with as many arguments as parameters evaluates the
\* body in a new frame whose parent is the frame the lambda captured, not the
\* frame of the caller; binding the parameters adds or changes no binding of
\* a frame that existed, nested calls of the closure get a frame each, and
\* the free names of the body are looked up through the captured frame.
C5_CallMakesFrame ==
    [][(Called /\ tree' \in CallForms /\ Looked(frames, frame', "f").val.tag = "func")
        => LET fn == funcs[Looked(frames, frame', "f").val.v]
               new == Len(frames) + 1
               a == IntV(tree'.items[2].n)
               nested == fn.code \in Bodies \ {Sym("x"), Form2("define", Sym("x"), Sym("p"))}
                         /\ a = IntV(0)
           IN /\ Len(frames') = IF nested THEN new + 1 ELSE new
              /\ \A k \in new..Len(frames') :
                    /\ frames'[k].parent_frame = fn.frame
                    /\ "p" \in DOMAIN frames'[k].bindings
              /\ frames'[new].bindings["p"] = a
              /\ nested => frames'[new + 1].bindings["p"] = IntV(1)
              /\ \A i \in DOMAIN frames : frames'[i] = frames[i]
              /\ IF fn.code = Form2("define", Sym("x"), Sym("p"))
                 THEN /\ outcome' = [val |-> a, err |-> ""]
                      /\ frames'[new].bindings["x"] = a
                 ELSE outcome' = Looked(frames, fn.frame, "x")]_vars

C5_Witness ==
    /\ tree \in CallForms
    /\ outcome.err = ""
    /\ frame = 3
    /\ Len(frames) = 4
    /\ frames[4].parent_frame = 2
    /\ "p" \in DOMAIN frames[4].bindings

\* C6: (del name) evaluated in frame F removes the binding of name from F
\* only and returns the removed value, so that a lookup from F then finds the
\* binding of the nearest ancestor; when F does not bind name, whether an
\* ancestor does or none does, it fails with SchemeNameError and no binding
\* changes.
C6_DelCurrentFrameOnly ==
    [][(Called /\ tree' \in DelForms)
        => LET n == tree'.items[2].s
               F == frame'
           IN IF n \in DOMAIN frames[F].bindings
              THEN /\ outcome' = [val |-> frames[F].bindings[n], err |-> ""]
                   /\ Len(frames') = Len(frames)
                   /\ \A i \in DOMAIN frames : i # F => frames'[i] = frames[i]
                   /\ frames'[F].parent_frame = frames[F].parent_frame
                   /\ DOMAIN frames'[F].bindings = DOMAIN frames[F].bindings \ {n}
                   /\ \A m \in DOMAIN frames'[F].bindings :
                        frames'[F].bindings[m] = frames[F].bindings[m]
                   /\ Looked(frames', F, n) = Looked(frames, frames[F].parent_frame, n)
              ELSE /\ outcome'.err = "SchemeNameError"
                   /\ frames' = frames]_vars

C6_Witness ==
    /\ tree = Form1("del", Sym("x"))
    /\ outcome.err = ""
    /\ frame = 3
    /\ "x" \notin DOMAIN frames[3].bindings
    /\ Looked(frames, 3, "x").err = ""

\* C7: (set! name expr) evaluated in a frame whose chain, the root included,
\* does not bind name fails with SchemeNameError before expr is evaluated and
\* leaves every binding of every frame as it was.
C7_SetUnboundFails ==
    [][(Called /\ tree' \in SetForms /\ Nearest(frames, frame', tree'.items[2].s) = 0)
        => /\ outcome'.err = "SchemeNameError"
           /\ frames' = frames
           /\ heap' = heap
           /\ funcs' = funcs]_vars

C7_Witness ==
    /\ tree = Form2("set!", Sym("x"), Form2("define", Sym("x"), IntLit(2)))
    /\ outcome.err = "SchemeNameError"
    /\ Nearest(frames, frame, "x") = 0

\* C9: the root frame binds the names it was constructed with, no more and no
\* fewer, in every reachable state, and only a set! form replaces a value in
\* it; every other frame has one parent, made before it, that never changes,
\* so every chain is finite and ends at the root.
C9_RootNamesAndParents ==
    /\ [](/\ DOMAIN frames[1].bindings = DOMAIN BuiltinBindings
          /\ frames[1].parent_frame = NoParent
          /\ \A i \in 2..Len(frames) : frames[i].parent_frame \in 1..(i - 1))
    /\ [][/\ \A i \in DOMAIN frames :
                /\ i \in DOMAIN frames'
                /\ frames'[i].parent_frame = frames[i].parent_frame
           /\ frames'[1] # frames[1] => tree' \in SetForms]_vars

C9_Witness ==
    /\ tree = Form2("set!", Sym("nil"), IntLit(1))
    /\ outcome.err = ""
    /\ frames[1].bindings["nil"] = IntV(1)
    /\ Len(frames) > 2

----------------------------------------------------------------------------
(* C10, checked under SpecParse.                                           *)

\* C10 as stated: for every token list, the empty one included, parse
\* returns a tree that uses every token once, exactly when the list is one
\* balanced expression, and fails with SchemeSyntaxError otherwise; it never
\* fails with another kind of fault.
C10_ParseAllOrSyntaxError ==
    outcome # Pending
        => IF SingleExpression(tokens)
           THEN outcome.err = "" /\ Unparse(outcome.val) = tokens
           ELSE outcome.err = "SchemeSyntaxError"

====
